---- MODULE Spec2Model ----
(***************************************************************************)
(* Model of BuienradarCam (homeassistant/components/buienradar/camera.py): *)
(* a TTL cache of one radar image with a single-flight refresh guarded by  *)
(* an asyncio.Condition.                                                   *)
(*                                                                         *)
(* Tasks run on one asyncio event loop: a task runs without interruption   *)
(* from one suspension point to the next.  The suspension points of        *)
(* async_camera_image are `await self._condition.wait()` (line 190),       *)
(* `session.get(...)` (line 143) and `await res.read()` (line 153).  The   *)
(* lock of the condition is only ever held inside one such uninterrupted   *)
(* section, so it is free at every state of the model.  A resumed task is  *)
(* put on the loop's FIFO ready queue (`ready`) and runs when it reaches   *)
(* the head of it.                                                         *)
(***************************************************************************)
EXTENDS Integers, Sequences, FiniteSets, TLC

\* ---------------------------------------------------------------- bounds
NumTasks == 2
MaxTime  == 3
Delta    == 1
RadarTimeframe == 25       \* the configured forecast minutes of the instance
MaxMinutes == 119          \* forecast minutes drawn when the URL is checked

Tasks == 1..NumTasks

\* ---------------------------------------------------------------- values
None    == "None"          \* Python None (image, header, token)
Raised  == "RAISED"        \* the call ended by raising
Pending == "PENDING"       \* nothing yet
Bodies  == {"", "B1", "B2"}    \* bytes returned by res.read(); "" is b""
Tokens  == {"X", "Y"}          \* values of the Last-Modified header

\* Python truthiness of `bytes | None` and `str | None`
Truthy(v) == v # None /\ v # ""

\* Network events delivered to a suspended fetch
HeaderEvents == {"timeout", "client_error", "http_error", "not_modified",
                 "ok", "fault"}
BodyEvents   == {"body", "timeout", "client_error", "fault"}
NoEvent == [kind |-> "none", val |-> None]

VARIABLES
    now,            \* dt_util.utcnow()
    last_image,     \* self._last_image
    last_modified,  \* self._last_modified
    loading,        \* self._loading
    deadline,       \* self._deadline: <<>> is None, <<d>> is the datetime d
    waiters,        \* tasks suspended in self._condition.wait(), in order
    ready,          \* event loop ready queue of resumed tasks
    pc,             \* where each task is in async_camera_image
    start,          \* local `now` of the fetching call (line 197)
    headers,        \* If-Modified-Since header of the request (or None)
    resp,           \* network event delivered to the task, not yet handled
    radar_timeframe,\* self._radar_timeframe
    forecast,       \* the forecast parameter of the request URL (line 134)
    \* ---- history (observation only, never read by the program) ----
    joined,         \* the fetching task a waiting call found in flight
    pub,            \* payload published by the fetch a waiter joined
    snap,           \* <<payload, token, deadline>> when the fetch started
    succeeded,      \* some fetch has been classified successful
    lastSuccStart,  \* <<>> or <<T>>: start of the latest successful fetch
    lastFailed,     \* latest settled fetch failed and no call began since
    last            \* the most recent beginning or end of a call

prog == <<now, last_image, last_modified, loading, deadline, waiters, ready,
          pc, start, headers, resp, radar_timeframe, forecast>>
hist == <<joined, pub, snap, succeeded, lastSuccStart, lastFailed, last>>
vars == <<prog, hist>>

\* tasks with a fetch in flight: inside __retrieve_radar_image (line 198)
InFlight == {t \in Tasks : pc[t] \in {"fetching", "reading"}}

\* what is noted of the beginning of a call: the path it took, how the
\* clock stood to the latest success, whether a fetch was in flight, and
\* whether the latest fetch had failed
NoBeg == [role |-> "none", when |-> "never", busy |-> FALSE,
          failed |-> FALSE]
\* what is noted of the end of a call: the path it took, what it returned,
\* what the fetch it was coalesced on published, the network event and its
\* classification (fetching call only), whether any fetch had succeeded,
\* and whether its fetch started on an instance that held nothing yet
NoRet == [role |-> "none", value |-> Pending, pub |-> Pending,
          kind |-> "none", class |-> "none", succ |-> FALSE,
          fresh |-> FALSE]

\* the most recent beginning of a call, if the latest step at the boundary
\* of a call was a beginning, and likewise the most recent end
beg == last.b
ret == last.e

\* needs_refresh with the deadline test one tick late
needs_refresh_late ==
    IF ~(Delta # 0 /\ deadline # <<>> /\ Truthy(last_image))
    THEN TRUE
    ELSE now > deadline[1] + 1

\* __needs_refresh (lines 117-121)
needs_refresh ==
    IF ~(Delta # 0 /\ deadline # <<>> /\ Truthy(last_image))
    THEN TRUE
    ELSE now > deadline[1]

\* lines 94-108: the cache of a new instance
InitCache ==
    /\ now = 0
    /\ last_image = None
    /\ last_modified = None
    /\ loading = FALSE
    /\ deadline = <<>>
    /\ waiters = <<>>
    /\ ready = <<>>
    /\ pc = [t \in Tasks |-> "idle"]
    /\ start = [t \in Tasks |-> 0]
    /\ headers = [t \in Tasks |-> None]
    /\ resp = [t \in Tasks |-> NoEvent]
    /\ joined = [t \in Tasks |-> 0]
    /\ pub = [t \in Tasks |-> Pending]
    /\ snap = [t \in Tasks |-> <<>>]
    /\ succeeded = FALSE
    /\ lastSuccStart = <<>>
    /\ lastFailed = FALSE
    /\ last = [b |-> NoBeg, e |-> NoRet]
    /\ forecast = [t \in Tasks |-> 0]

\* the instance after __init__, with the configured forecast minutes
Init == InitCache /\ radar_timeframe = RadarTimeframe

\* the clock advances
Tick ==
    /\ UNCHANGED <<radar_timeframe, forecast>>
    /\ now < MaxTime
    /\ now' = now + 1
    /\ UNCHANGED <<last_image, last_modified, loading, deadline, waiters,
                   ready, pc, start, headers, resp>>
    /\ UNCHANGED hist

\* how the clock stands to start + ttl of the latest successful fetch
When ==
    CASE lastSuccStart = <<>> -> "never"
      [] lastSuccStart # <<>> /\ now < lastSuccStart[1] + Delta -> "before"
      [] lastSuccStart # <<>> /\ now = lastSuccStart[1] + Delta -> "at"
      [] OTHER -> "after"

\* a call of async_camera_image begins in task t and takes path r
BeginCall(t, r, e) ==
    /\ pc[t] = "idle"
    /\ last' = [b |-> [role |-> r, when |-> When,
                       busy |-> (InFlight # {}), failed |-> lastFailed],
                e |-> e]
    /\ lastFailed' = FALSE
    /\ UNCHANGED <<succeeded, lastSuccStart>>

\* line 183: the value the fast path returns
FastValue == last_image

\* lines 182-183: no refresh due, return the cached image
FastPath(t) ==
    /\ UNCHANGED <<radar_timeframe, forecast>>
    /\ BeginCall(t, "fast", [NoRet EXCEPT !.role = "fast",
                                          !.value = FastValue,
                                          !.succ = succeeded])
    /\ ~needs_refresh
    /\ UNCHANGED <<now, last_image, last_modified, loading, deadline,
                   waiters, ready, pc, start, headers, resp>>
    /\ UNCHANGED <<joined, pub, snap>>

\* the loading test never sends a call to wait
IsLoading_never == FALSE

\* line 188: the test that sends a call to wait
IsLoading == loading

\* lines 186-190: refresh due and another task is loading: wait
WaitLoading(t) ==
    /\ UNCHANGED <<radar_timeframe, forecast>>
    /\ BeginCall(t, "waiter", NoRet)
    /\ needs_refresh
    /\ IsLoading
    /\ waiters' = Append(waiters, t)
    /\ pc' = [pc EXCEPT ![t] = "waiting"]
    /\ joined' = [joined EXCEPT ![t] =
                    IF InFlight = {} THEN 0 ELSE CHOOSE u \in InFlight : TRUE]
    /\ pub' = [pub EXCEPT ![t] = Pending]
    /\ UNCHANGED <<now, last_image, last_modified, loading, deadline,
                   ready, start, headers, resp>>
    /\ UNCHANGED snap

\* the loading flag is not set
LoadingOnStart_unset == loading

\* line 194: the loading flag a fetching call leaves behind the lock
LoadingOnStart == TRUE

\* the extra period is added when the minutes are no multiple of 10
Periods_of_minutes(m) ==
    IF m % 10 # 0 THEN (m \div 10) + 2 ELSE (m \div 10) + 1

\* lines 127-130: the number of 10 minute periods for m forecast minutes
Periods(m) ==
    LET radarTimeframePeriods == (m \div 10) + 1
    IN  IF radarTimeframePeriods % 10 # 0
        THEN radarTimeframePeriods + 1
        ELSE radarTimeframePeriods

\* the request never carries the conditional header
RequestHeader_none == None

\* lines 137-140: the request headers
RequestHeader == IF Truthy(last_modified) THEN last_modified ELSE None

\* lines 186-198 and 125-143: refresh due and nobody is loading: set the
\* loading flag under the lock, note the time, build the request, send it
StartFetch(t) ==
    /\ BeginCall(t, "fetcher", NoRet)
    /\ needs_refresh
    /\ ~IsLoading
    /\ loading' = LoadingOnStart
    /\ start' = [start EXCEPT ![t] = now]
    /\ headers' = [headers EXCEPT ![t] = RequestHeader]
    /\ forecast' = [forecast EXCEPT ![t] = Periods(radar_timeframe)]
    /\ UNCHANGED radar_timeframe
    /\ pc' = [pc EXCEPT ![t] = "fetching"]
    /\ snap' = [snap EXCEPT ![t] = <<last_image, last_modified, deadline>>]
    /\ UNCHANGED <<now, last_image, last_modified, deadline, waiters, ready,
                   resp>>
    /\ UNCHANGED <<joined, pub>>

\* ------------------------------------------------------------ the network
\* the response status line and headers of a request arrive, or the request
\* fails; a 304 is only sent in answer to an If-Modified-Since header
NetHeaders(t) ==
    /\ UNCHANGED <<radar_timeframe, forecast>>
    /\ pc[t] = "fetching"
    /\ resp[t] = NoEvent
    /\ \E k \in HeaderEvents :
         \E lm \in (IF k = "ok" THEN Tokens \cup {None} ELSE {None}) :
            /\ k = "not_modified" => headers[t] # None
            /\ resp' = [resp EXCEPT ![t] = [kind |-> k, val |-> lm]]
    /\ ready' = Append(ready, t)
    /\ UNCHANGED <<now, last_image, last_modified, loading, deadline,
                   waiters, pc, start, headers>>
    /\ UNCHANGED hist

\* the body of a 200 response arrives, or reading it fails
NetBody(t) ==
    /\ UNCHANGED <<radar_timeframe, forecast>>
    /\ pc[t] = "reading"
    /\ resp[t] = NoEvent
    /\ \E k \in BodyEvents :
         \E b \in (IF k = "body" THEN Bodies ELSE {None}) :
            resp' = [resp EXCEPT ![t] = [kind |-> k, val |-> b]]
    /\ ready' = Append(ready, t)
    /\ UNCHANGED <<now, last_image, last_modified, loading, deadline,
                   waiters, pc, start, headers>>
    /\ UNCHANGED hist

\* ------------------------------------------------- __retrieve_radar_image
\* a 304 is taken for an error status
Classify_304_fails(k) ==
    CASE k = "body" -> "success"
      [] k \in {"timeout", "client_error", "http_error", "not_modified"}
           -> "failed"
      [] OTHER -> "fault"

\* the except clause names asyncio.TimeoutError only
Classify_timeout_only(k) ==
    CASE k \in {"not_modified", "body"} -> "success"
      [] k = "timeout" -> "failed"
      [] OTHER -> "fault"

\* lines 142-159: what the try block makes of a network event: "success" is
\* `return True`, "failed" is the except clause (`return False`), "fault" is
\* an exception the except clause does not name
Classify(k) ==
    CASE k \in {"not_modified", "body"} -> "success"
      [] k \in {"timeout", "client_error", "http_error"} -> "failed"
      [] OTHER -> "fault"

\* the deadline is counted from the completion of the fetch
NewDeadline_completion(t, c) ==
    IF c = "success" THEN <<now + Delta>> ELSE deadline

\* a fetch that did not succeed clears the deadline
NewDeadline_reset(t, c) ==
    IF c = "success" THEN <<start[t] + Delta>> ELSE <<>>

\* the deadline is set whether or not the fetch succeeded
NewDeadline_always(t, c) ==
    IF c # "fault" THEN <<start[t] + Delta>> ELSE deadline

\* lines 200-201: the deadline after a fetch of class c started by t
NewDeadline(t, c) ==
    IF c = "success" THEN <<start[t] + Delta>> ELSE deadline

\* nobody is notified
NotifyAll_nobody == <<>>

\* line 208: the tasks notify_all() makes ready
NotifyAll == waiters

\* the finally block does not clear the loading flag
LoadingAfter_kept == loading

\* line 207: the loading flag after the finally block
LoadingAfter == FALSE

\* lines 199-208: the fetch of task t ended on network event k, classified
\* c, leaving image img: set the deadline, return or raise, and in the
\* finally block clear the loading flag and notify all waiters
Finish(t, k, c, img) ==
    /\ last_image' = img
    /\ deadline' = NewDeadline(t, c)
    /\ loading' = LoadingAfter
    /\ ready' = Tail(ready) \o NotifyAll
    /\ waiters' = <<>>
    /\ pc' = [pc EXCEPT ![t] = "idle"]
    /\ resp' = [resp EXCEPT ![t] = NoEvent]
    /\ start' = [start EXCEPT ![t] = 0]
    /\ headers' = [headers EXCEPT ![t] = None]
    /\ forecast' = [forecast EXCEPT ![t] = 0]
    /\ UNCHANGED radar_timeframe
    /\ pub' = [u \in Tasks |->
                 IF joined[u] = t /\ pub[u] = Pending /\ pc[u] = "waiting"
                 THEN img ELSE pub[u]]
    /\ succeeded' = (succeeded \/ c = "success")
    /\ lastSuccStart' = IF c = "success" THEN <<start[t]>> ELSE lastSuccStart
    /\ lastFailed' = (c = "failed")
    /\ snap' = [snap EXCEPT ![t] = <<>>]
    /\ last' = [b |-> NoBeg,
                e |-> [role |-> "fetcher",
                       value |-> IF c = "fault" THEN Raised ELSE img,
                       pub |-> img, kind |-> k, class |-> c,
                       succ |-> (succeeded \/ c = "success"),
                       fresh |-> (snap[t] = <<None, None, <<>>>>)]]
    /\ UNCHANGED <<now, joined>>

Running(t) == ready # <<>> /\ Head(ready) = t

\* lines 143-148, 157-159: session.get() raised, raise_for_status() raised,
\* or the status is 304
HeadersDone(t) ==
    /\ Running(t)
    /\ pc[t] = "fetching"
    /\ resp[t].kind \in HeaderEvents \ {"ok"}
    /\ last_modified' = last_modified
    /\ Finish(t, resp[t].kind, Classify(resp[t].kind), last_image)

\* lines 150-151: the token after the headers of a 200 response with
\* Last-Modified header lm (None when the header is absent)
TokenAfterHeaders(lm) == IF Truthy(lm) THEN lm ELSE last_modified

\* lines 150-153: status 200: store the Last-Modified header if there is
\* one, then suspend in res.read()
HeadersOk(t) ==
    /\ UNCHANGED <<radar_timeframe, forecast>>
    /\ Running(t)
    /\ pc[t] = "fetching"
    /\ resp[t].kind = "ok"
    /\ last_modified' = TokenAfterHeaders(resp[t].val)
    /\ pc' = [pc EXCEPT ![t] = "reading"]
    /\ resp' = [resp EXCEPT ![t] = NoEvent]
    /\ ready' = Tail(ready)
    /\ UNCHANGED <<now, last_image, loading, deadline, waiters, start,
                   headers>>
    /\ UNCHANGED hist

\* the body read is not stored
ImageAfterBody_dropped(b) == last_image

\* line 153: the image after res.read() returned b
ImageAfterBody(b) == b

\* lines 153-159: res.read() returned the body, or raised
BodyDone(t) ==
    /\ Running(t)
    /\ pc[t] = "reading"
    /\ resp[t].kind \in BodyEvents
    /\ last_modified' = last_modified
    /\ IF resp[t].kind = "body"
       THEN Finish(t, "body", Classify("body"), ImageAfterBody(resp[t].val))
       ELSE Finish(t, resp[t].kind, Classify(resp[t].kind), last_image)

\* the waiter's path ends without a return statement
WaiterValue_none == None

\* line 191: the value a notified waiter returns
WaiterValue == last_image

\* lines 190-191: a notified waiter returns the image
WaiterResume(t) ==
    /\ UNCHANGED <<radar_timeframe, forecast>>
    /\ Running(t)
    /\ pc[t] = "waiting"
    /\ pc' = [pc EXCEPT ![t] = "idle"]
    /\ ready' = Tail(ready)
    /\ last' = [b |-> NoBeg,
                e |-> [NoRet EXCEPT !.role = "waiter", !.value = WaiterValue,
                                    !.pub = pub[t], !.succ = succeeded]]
    /\ joined' = [joined EXCEPT ![t] = 0]
    /\ pub' = [pub EXCEPT ![t] = Pending]
    /\ UNCHANGED <<now, last_image, last_modified, loading, deadline,
                   waiters, start, headers, resp>>
    /\ UNCHANGED <<snap, succeeded, lastSuccStart, lastFailed>>

Next ==
    \/ Tick
    \/ \E t \in Tasks :
         \/ FastPath(t)
         \/ WaitLoading(t)
         \/ StartFetch(t)
         \/ NetHeaders(t)
         \/ NetBody(t)
         \/ HeadersDone(t)
         \/ HeadersOk(t)
         \/ BodyDone(t)
         \/ WaiterResume(t)

Spec == Init /\ [][Next]_vars

\* the event loop runs the task at the head of its ready queue
RunReady ==
    \E t \in Tasks :
        HeadersDone(t) \/ HeadersOk(t) \/ BodyDone(t) \/ WaiterResume(t)

\* the network answers a request that is waiting for an answer
NetAnswer == \E t \in Tasks : NetHeaders(t) \/ NetBody(t)

\* the loop keeps running ready tasks, and every request sent is answered
\* (by a response, an error or the timeout)
Fairness == WF_vars(RunReady) /\ WF_vars(NetAnswer)

FairSpec == Spec /\ Fairness

\* the request URL of the first fetch of an instance, for every number of
\* forecast minutes an instance can be configured with
PeriodInit == InitCache /\ radar_timeframe \in 0..MaxMinutes

PeriodNext == \E t \in Tasks : StartFetch(t)

PeriodSpec == PeriodInit /\ [][PeriodNext]_vars

\* ================================================================ claims
Values == Bodies \cup {None}

\* C1: at every moment at most one task is inside __retrieve_radar_image
C1_SingleFetch == Cardinality(InFlight) <= 1

\* C1 happens: one task is fetching while another call waits for it
C1_Witness ==
    \E t \in Tasks :
        /\ pc[t] \in {"fetching", "reading"}
        /\ Len(waiters) >= 1
        /\ \A i \in 1..Len(waiters) : joined[waiters[i]] = t

\* C2: a call that begins while a fetch is in flight issues no fetch of its
\* own but waits, a waiting call is waiting for a fetch that is in flight or
\* has settled, and a waiter only returns after the fetch it joined settled
C2_Coalesce ==
    /\ beg.busy => beg.role = "waiter"
    /\ \A t \in Tasks :
          pc[t] = "waiting" =>
             /\ joined[t] # 0
             /\ pub[t] = Pending => joined[t] \in InFlight
    /\ ret.role = "waiter" => ret.pub # Pending

\* C2 happens: a waiter has returned after the fetch it joined settled
C2_Witness ==
    /\ ret.role = "waiter"
    /\ ret.pub \in Values
    /\ InFlight = {}

\* C3 as claimed: no call ever ends by raising
C3_NeverRaises == ret.value # Raised

\* C3 amended: a call ends by raising only if it is the fetching call and the
\* fetch hit an exception other than a timeout or a client error; for
\* every network outcome every caller receives bytes or None
C3_RaisesOnlyOnFault ==
    /\ ret.value = Raised => (ret.role = "fetcher" /\ ret.kind = "fault")
    /\ ret.role # "none" /\ ret.kind # "fault" => ret.value \in Values

\* C3 happens: a fetch failed on a client error and the call returned None
C3_Witness ==
    /\ ret.role = "fetcher"
    /\ ret.kind \in {"timeout", "client_error", "http_error"}
    /\ ret.value = None

\* C4 as claimed: once a fetch has been classified successful, no call
\* returns None
C4_NoneOnlyBeforeSuccess == ret.succ => ret.value # None

\* C5 as claimed: the step that ends a fetch classified as failed leaves
\* payload, token and deadline as they were when the fetch started
C5_FailedFetchChangesNothing ==
    [][\A t \in Tasks :
          (pc[t] \in {"fetching", "reading"} /\ pc'[t] = "idle"
             /\ ret'.class = "failed")
          => <<last_image', last_modified', deadline'>> = snap[t]]_vars

\* C6: after a failed fetch has settled and until the next call begins a
\* refresh is due and nobody is loading, and the first call that begins then
\* issues a fetch itself
C6_RetryAfterFailure ==
    /\ lastFailed => (needs_refresh /\ ~loading /\ InFlight = {})
    /\ beg.failed => beg.role = "fetcher"

\* C6 happens: with an image cached and a deadline set, a fetch failed and
\* the next call is fetching again
C6_Witness ==
    /\ beg.failed
    /\ beg.role = "fetcher"
    /\ Truthy(last_image)
    /\ deadline # <<>>
    /\ InFlight # {}

\* C7 as claimed: a call that begins before start + ttl of the latest
\* successful fetch takes the fast path
C7_FreshBeforeDeadline ==
    beg.when = "before" => beg.role = "fast"

\* C8 as claimed: a call that begins at or after start + ttl of the latest
\* successful fetch, with no fetch in flight, issues a fetch
C8_FetchAtOrAfterDeadline ==
    (beg.when \in {"at", "after"} /\ ~beg.busy) => beg.role = "fetcher"

\* C8 amended: a call that begins strictly after start + ttl of the latest
\* successful fetch, with no fetch in flight, issues a fetch
C8_FetchAfterDeadline ==
    (beg.when = "after" /\ ~beg.busy) => beg.role = "fetcher"

\* C8 happens: an image is cached, its deadline has passed, and the call
\* that began then is fetching
C8_Witness ==
    /\ beg.when = "after"
    /\ ~beg.busy
    /\ beg.role = "fetcher"
    /\ Truthy(last_image)
    /\ InFlight # {}

\* C9: every call that has begun ends (each task is idle again and again)
\* and a loading flag that is set is cleared again
C9_EveryCallEnds ==
    /\ \A t \in Tasks : []<>(pc[t] = "idle")
    /\ []<>(~loading)

\* C9 happens: a call waits on the condition while the fetch it waits for
\* is about to end in an exception
C9_Witness ==
    \E t, u \in Tasks :
        /\ pc[t] = "waiting"
        /\ joined[t] = u
        /\ resp[u].kind = "fault"

\* C10: a waiter returns the payload published by the fetch it joined, a
\* fetching call that returns a value returns the payload it published, and
\* the payload a fetch publishes is the body read on a 200 and the payload
\* cached when the fetch started otherwise
C10_SameValue ==
    /\ [](ret.role = "waiter" => (ret.pub # Pending /\ ret.value = ret.pub))
    /\ []((ret.role = "fetcher" /\ ret.value # Raised)
             => ret.value = ret.pub)
    /\ [][\A t \in Tasks :
            (pc[t] \in {"fetching", "reading"} /\ pc'[t] = "idle")
            => ret'.pub = IF resp[t].kind = "body" THEN resp[t].val
                          ELSE snap[t][1]]_vars

\* C10 happens: a waiter returned the new image of the fetch it joined
C10_Witness ==
    /\ ret.role = "waiter"
    /\ ret.value = "B2"
    /\ ret.pub = "B2"

\* a fetch of task t settles in this step
Settles(t) == pc[t] \in {"fetching", "reading"} /\ pc'[t] = "idle"

\* C11: a fetch answered with 304 leaves payload and token as they were
\* when it started, sets the deadline to its start time + ttl, and the
\* fetching call returns the payload cached before
C11_NotModified ==
    [][\A t \in Tasks :
          (Settles(t) /\ resp[t].kind = "not_modified") =>
             /\ last_image' = snap[t][1]
             /\ last_modified' = snap[t][2]
             /\ deadline' = <<start[t] + Delta>>
             /\ ret'.value = snap[t][1]]_vars

\* C11 happens: a fetch started after the deadline was answered 304 and the
\* call returned the image cached before
C11_Witness ==
    /\ ret.role = "fetcher"
    /\ ret.kind = "not_modified"
    /\ ret.value \in {"B1", "B2"}
    /\ last_modified \in Tokens
    /\ deadline # <<>> /\ deadline[1] > Delta

\* C12: the request of a fetch carries If-Modified-Since with the token
\* that was stored when the fetch started, and no such header when no token
\* was stored
C12_ConditionalHeader ==
    \A t \in Tasks :
       pc[t] \in {"fetching", "reading"} =>
          /\ snap[t][2] \in Tokens => headers[t] = snap[t][2]
          /\ snap[t][2] = None => headers[t] = None

\* C12 happens: the token changed from one fetch to the next and the
\* request in flight carries the newer one
C12_Witness ==
    \E t \in Tasks :
        /\ pc[t] = "fetching"
        /\ headers[t] = "Y"
        /\ last_modified = "Y"
        /\ last_image \in {"B1", "B2"}

\* C13: the deadline is None until a fetch has been classified successful
\* and from then on it is the start time + ttl of the latest such fetch,
\* and it changes only in the step in which such a fetch settles
C13_DeadlineFromStart ==
    /\ [](deadline = IF lastSuccStart = <<>> THEN <<>>
                     ELSE <<lastSuccStart[1] + Delta>>)
    /\ [][deadline' # deadline =>
            \E t \in Tasks : Settles(t) /\ ret'.class = "success"]_vars

\* C13 happens: a successful fetch took time, and the deadline it set is
\* earlier than its completion time + ttl
C13_Witness ==
    /\ ret.role = "fetcher"
    /\ ret.class = "success"
    /\ deadline # <<>>
    /\ deadline[1] < now + Delta
    /\ lastSuccStart = <<deadline[1] - Delta>>

\* C14 as claimed: payload and token change only in the steps of a fetch,
\* a fetch that does not end with a body read leaves both as they were when
\* it started, and a fetch that does makes the body the payload
C14_OnlyFullBodyWrites ==
    [][/\ (last_image' # last_image \/ last_modified' # last_modified)
            => \E t \in Tasks :
                  pc[t] \in {"fetching", "reading"} /\ Running(t)
       /\ \A t \in Tasks :
             (Settles(t) /\ ret'.kind # "body") =>
                (last_image' = snap[t][1] /\ last_modified' = snap[t][2])
       /\ \A t \in Tasks :
             (Settles(t) /\ ret'.kind = "body") =>
                last_image' = resp[t].val]_vars

\* C15: the step in which a fetch settles, however it ends, clears the
\* loading flag and makes every waiter ready, no waiter becomes ready in any
\* other step, and a waiter that becomes ready has the payload of the fetch
\* it joined published to it
C15_ResetThenRelease ==
    [][/\ \A t \in Tasks :
             Settles(t) =>
                /\ loading' = FALSE
                /\ waiters' = <<>>
                /\ ready' = Tail(ready) \o waiters
       /\ \A u \in Tasks :
             (pc[u] = "waiting" /\ pc'[u] = "waiting"
                /\ (\E i \in 1..Len(ready') : ready'[i] = u)
                /\ ~(\E i \in 1..Len(ready) : ready[i] = u))
             => /\ \E t \in Tasks : Settles(t) /\ joined[u] = t
                /\ loading' = FALSE
                /\ pub'[u] = last_image']_vars

\* C15 happens: the fetch ended in an exception, the flag is cleared and the
\* waiter it had is ready to run
C15_Witness ==
    /\ ret.value = Raised
    /\ ~loading
    /\ \E u \in Tasks :
          pc[u] = "waiting" /\ ready = <<u>> /\ pub[u] # Pending

\* C16: the first call of a new instance issues a fetch; a fetch that
\* started on an instance holding nothing returns None to its caller when
\* it is classified failed and the body it read when it is classified
\* successful
C16_FirstCall ==
    /\ [][(last = [b |-> NoBeg, e |-> NoRet] /\ last' # last)
             => beg'.role = "fetcher"]_vars
    /\ []((ret.fresh /\ ret.class = "failed") => ret.value = None)
    /\ [][\A t \in Tasks :
             (Settles(t) /\ ret'.fresh /\ ret'.class = "success")
             => (resp[t].kind = "body" /\ ret'.value = resp[t].val)]_vars

\* C16 happens: the fetch of the first call succeeded and the call returned
\* the image read
C16_Witness ==
    /\ ret.fresh
    /\ ret.class = "success"
    /\ ret.value = "B1"
    /\ last_image = "B1"
    /\ deadline = <<Delta>> /\ now = 0

\* C17 as claimed: the forecast parameter of the URL is (m // 10) + 1, plus
\* one when that is no multiple of 10; it is 2 for 10 minutes and 4 for 25
C17_PeriodsAsClaimed ==
    \A t \in Tasks :
       pc[t] = "fetching" =>
          /\ forecast[t] = (radar_timeframe \div 10) + 1
                           + (IF ((radar_timeframe \div 10) + 1) % 10 = 0
                              THEN 0 ELSE 1)
          /\ radar_timeframe = 10 => forecast[t] = 2
          /\ radar_timeframe = 25 => forecast[t] = 4

\* C17 amended: the forecast parameter of the URL is (m // 10) + 1, plus
\* one when that is no multiple of 10; it is 3 for 10 minutes and 4 for 25
C17_Periods ==
    \A t \in Tasks :
       pc[t] = "fetching" =>
          /\ forecast[t] = (radar_timeframe \div 10) + 1
                           + (IF ((radar_timeframe \div 10) + 1) % 10 = 0
                              THEN 0 ELSE 1)
          /\ radar_timeframe = 10 => forecast[t] = 3
          /\ radar_timeframe = 25 => forecast[t] = 4

\* C17 happens: a request for 10 forecast minutes asks for 3 periods
C17_Witness ==
    \E t \in Tasks :
        pc[t] = "fetching" /\ radar_timeframe = 10 /\ forecast[t] = 3

\* C18: when a fetch classified successful settles, the cache needs no
\* refresh, so the next call takes the fast path and issues no fetch
C18_SuccessMakesFresh ==
    [][\A t \in Tasks :
          (Settles(t) /\ ret'.class = "success") => ~needs_refresh']_vars

\* C19: the image, the validator and the deadline are written only by the
\* one task whose fetch is in flight while loading is set; loading is
\* written only in the two sections under the lock, where a fetch starts and
\* where it settles; waiters and fast-path calls write none of the four
C19_SingleWriter ==
    [][/\ (last_image' # last_image \/ last_modified' # last_modified
             \/ deadline' # deadline)
          => /\ loading
             /\ \E t \in Tasks : InFlight = {t} /\ Running(t)
       /\ loading' # loading
          => \E t \in Tasks :
                \/ pc[t] = "idle" /\ pc'[t] = "fetching" /\ loading'
                \/ Settles(t) /\ ~loading'
       /\ ((\E t \in Tasks : pc[t] = "waiting" /\ pc'[t] = "idle")
             \/ (\E t \in Tasks : pc[t] = "idle" /\ pc'[t] = "waiting")
             \/ (last' # last /\ beg'.role = "fast"))
          => UNCHANGED <<last_image, last_modified, deadline, loading>>]_vars

\* C19 happens: the one fetch in flight has written the validator while
\* another call waits for it
C19_Witness ==
    \E t, u \in Tasks :
        /\ pc[t] = "reading"
        /\ pc[u] = "waiting"
        /\ loading
        /\ last_modified # snap[t][2]

\* C20: the deadline never decreases and, once set, is never None again
C20_DeadlineMonotone ==
    [][deadline # <<>> =>
          (deadline' # <<>> /\ deadline'[1] >= deadline[1])]_vars

\* C20 happens: a fetch that started with a deadline set has moved it forward
C20_Witness ==
    /\ ret.role = "fetcher"
    /\ ret.class = "success"
    /\ ~ret.fresh
    /\ deadline # <<>>
    /\ deadline[1] > Delta
    /\ lastFailed = FALSE
====
